---- MODULE Spec2Model ----
(***************************************************************************)
(* The editor session of src/src/editor/Editor.ts as a state machine.     *)
(*                                                                         *)
(* State: the fields of class Editor, the fields of its collaborators that *)
(* Editor.ts reads or writes (part.blocks, handles.block, camera.transform,*)
(* camera.size), the part parameter of the page's URL (href) and, as       *)
(* history variables, the last event handled (ev), the state the handler   *)
(* started from (old), the calls the handler made (log), what the camera   *)
(* held at each of its renders (frames), the part last shared (shared)     *)
(* and event counters.  A load of the page constructs a new session.       *)
(*                                                                         *)
(* Numbers are exact: a scalar is a reduced fraction <<n, d>> with d > 0,  *)
(* a Vector3 a triple of scalars.  A Quaternion is represented by the      *)
(* rotation it stands for, a 3x3 integer matrix acting on column vectors;  *)
(* pointer movements are multiples of 180 pixels, so that every orbit      *)
(* increment (0.5 degrees per pixel) is a multiple of 90 degrees and the   *)
(* rotations stay exact.  A Matrix4 is an affine map: its 3x3 block L and  *)
(* its translation row b, acting on row vectors, p |-> p.L + b.            *)
(***************************************************************************)
EXTENDS Integers, Sequences, FiniteSets, TLC

VARIABLES part, editorState, createFullSizedBlocks,
          translation, center, rotation, zoom,
          cameraTransform, cameraSize,
          mouseMode, handlesBlock, href,
          ev, old, log, frames, shared, nIn, nOut, nZero, nSteps

(* part                   part.blocks, a map from cells to blocks   (line 11)  *)
(* editorState            the brush's orientation, type, rounded    (line 25)  *)
(* createFullSizedBlocks  the brush's size                          (line 26)  *)
(* translation, center, rotation, zoom                           (lines 14-17) *)
(* cameraTransform        camera.transform                      (lines 146-149) *)
(* cameraSize             camera.size                          (lines 55, 192)  *)
(* mouseMode              Editor.mouseMode                          (line 20)  *)
(* handlesBlock           handles.block, the target cell      (lines 100, 125)  *)
(* href                   the part parameter of the page's URL (lines 29-31, 96) *)
(* ev                     the handler last run and its event's fields           *)
(* old                    the fields as that handler found them                 *)
(* log                    the calls that handler made, in order                 *)
(* frames                 camera.transform and camera.size at each call of      *)
(*                        camera.render() that handler made, in order           *)
(* shared                 the part whose string the URL of the page carries     *)
(* nIn, nOut, nZero       wheel events so far with deltaY < 0, > 0, = 0         *)
(* nSteps                 handlers so far other than presses, releases and      *)
(*                        forwarded moves                                       *)

vars == <<part, editorState, createFullSizedBlocks, translation, center,
          rotation, zoom, cameraTransform, cameraSize, mouseMode,
          handlesBlock, href, ev, old, log, frames, shared, nIn, nOut, nZero,
          nSteps>>

(* ------------------------------ bounds -------------------------------- *)

(* a run ends with its MaxSteps-th handler other than a press, a release
   or a forwarded move (an edit, a pan, an orbit, a wheel event, a click on
   share or save, a load of the page) *)
MaxSteps == 2

(* presses, releases and forwarded moves arrive as long as at least two of
   those MaxSteps handlers are still to come: the last of them follows the
   last but one directly *)
PointerSteps == MaxSteps - 1

(* --------------------------- exact scalars ---------------------------- *)

Abs(n) == IF n < 0 THEN -n ELSE n

RECURSIVE GCD(_, _)
GCD(a, b) == IF b = 0 THEN a ELSE GCD(b, a % b)

(* the fraction n/d in lowest terms, with a positive denominator *)
RNorm(n, d) ==
  IF n = 0 THEN <<0, 1>>
  ELSE IF d = 1 THEN <<n, 1>>
  ELSE LET g == GCD(Abs(n), Abs(d))
           s == IF d < 0 THEN -1 ELSE 1
       IN  <<(s * n) \div g, (s * d) \div g>>

RInt(i) == <<i, 1>>

RAdd(a, b) ==
  IF a[1] = 0 THEN b
  ELSE IF b[1] = 0 THEN a
  ELSE RNorm(a[1] * b[2] + b[1] * a[2], a[2] * b[2])

RNeg(a) == <<-a[1], a[2]>>

RSub(a, b) == RAdd(a, RNeg(b))

RMul(a, b) ==
  IF a[1] = 0 \/ b[1] = 0 THEN <<0, 1>>
  ELSE RNorm(a[1] * b[1], a[2] * b[2])

RDiv(a, b) == RNorm(a[1] * b[2], a[2] * b[1])

RLess(a, b) == a[1] * b[2] < b[1] * a[2]

RECURSIVE RPow(_, _)
RPow(a, k) == IF k = 0 THEN RInt(1)
              ELSE IF k > 0 THEN RMul(a, RPow(a, k - 1))
              ELSE RDiv(RPow(a, k + 1), a)

(* ------------------------------ Vector3 ------------------------------- *)

Vector3(x, y, z) == <<RInt(x), RInt(y), RInt(z)>>

VZero == Vector3(0, 0, 0)

VPlus(a, b) == <<RAdd(a[1], b[1]), RAdd(a[2], b[2]), RAdd(a[3], b[3])>>

VMinus(a, b) == <<RSub(a[1], b[1]), RSub(a[2], b[2]), RSub(a[3], b[3])>>

VTimes(a, r) == <<RMul(a[1], r), RMul(a[2], r), RMul(a[3], r)>>

(* ----------------------------- Quaternion ----------------------------- *)

QIdentity == <<<<1, 0, 0>>, <<0, 1, 0>>, <<0, 0, 1>>>>

MatEntry(A, B, i, j) == A[i][1] * B[1][j] + A[i][2] * B[2][j] + A[i][3] * B[3][j]

MatRow(A, B, i) == <<MatEntry(A, B, i, 1), MatEntry(A, B, i, 2), MatEntry(A, B, i, 3)>>

MatMul(A, B) ==
  IF A = QIdentity THEN B
  ELSE IF B = QIdentity THEN A
  ELSE <<MatRow(A, B, 1), MatRow(A, B, 2), MatRow(A, B, 3)>>

Transpose(A) == <<<<A[1][1], A[2][1], A[3][1]>>,
                  <<A[1][2], A[2][2], A[3][2]>>,
                  <<A[1][3], A[2][3], A[3][3]>>>>

(* cosine and sine of a whole number of quarter turns, given in degrees *)
CosDeg(a) ==
  LET q == (a[1] \div 90) % 4
  IN  IF q = 0 THEN 1 ELSE IF q = 2 THEN -1 ELSE 0

SinDeg(a) ==
  LET q == (a[1] \div 90) % 4
  IN  IF q = 1 THEN 1 ELSE IF q = 3 THEN -1 ELSE 0

RotX(a) == <<<<1, 0, 0>>, <<0, CosDeg(a), -SinDeg(a)>>, <<0, SinDeg(a), CosDeg(a)>>>>

RotY(a) == <<<<CosDeg(a), 0, SinDeg(a)>>, <<0, 1, 0>>, <<-SinDeg(a), 0, CosDeg(a)>>>>

RotZ(a) == <<<<CosDeg(a), -SinDeg(a), 0>>, <<SinDeg(a), CosDeg(a), 0>>, <<0, 0, 1>>>>

(* q.times(r): the rotation r followed by the rotation q *)
QTimes(q, r) == MatMul(q, r)

(* Quaternion.euler(angles), angles in degrees *)
QEuler(angles) == QTimes(QTimes(RotY(angles[2]), RotX(angles[1])), RotZ(angles[3]))

(* ------------------------------ Matrix4 ------------------------------- *)

GetTranslation(v) == [L |-> QIdentity, b |-> v]

(* q.toMatrix(): the matrix that takes the row vector p to q(p) *)
ToMatrix(q) == [L |-> Transpose(q), b |-> VZero]

RowTimesColumn(v, L, j) ==
  RAdd(RAdd(RMul(v[1], RInt(L[1][j])), RMul(v[2], RInt(L[2][j]))),
       RMul(v[3], RInt(L[3][j])))

TransformDirection(M, v) ==
  IF M.L = QIdentity THEN v
  ELSE <<RowTimesColumn(v, M.L, 1), RowTimesColumn(v, M.L, 2), RowTimesColumn(v, M.L, 3)>>

TransformPoint(M, p) == VPlus(TransformDirection(M, p), M.b)

(* A.times(B): A first, then B *)
MTimes(A, B) ==
  [L |-> MatMul(A.L, B.L), b |-> VPlus(TransformDirection(B, A.b), B.b)]

(* -------------------------- Part and Block ---------------------------- *)

Orientations == {"X", "Y", "Z"}

BlockTypes == {"PinHole", "AxleHole"}

Block(o, t, r) == [orientation |-> o, type |-> t, rounded |-> r]

Blocks == {Block(o, t, r) : o \in Orientations, t \in BlockTypes, r \in BOOLEAN}

forward(o) == IF o = "X" THEN <<1, 0, 0>>
              ELSE IF o = "Y" THEN <<0, 1, 0>> ELSE <<0, 0, 1>>

CellPlus(a, b) == <<a[1] + b[1], a[2] + b[2], a[3] + b[3]>>

(* part.blocks is a map from cells to blocks: a function on the occupied cells *)
EmptyPart == [c \in {} |-> Block("X", "PinHole", TRUE)]

PlaceBlockForced(p, cell, block) == (cell :> block) @@ p

ClearBlock(p, cell, orientation) == [c \in (DOMAIN p) \ {cell} |-> p[c]]

SetMin(S) == CHOOSE x \in S : \A y \in S : x <= y

SetMax(S) == CHOOSE x \in S : \A y \in S : x >= y

BoxMiddle(cells, i) ==
  LET xs == {c[i] : c \in cells}
  IN  RNorm(SetMin(xs) + SetMax(xs), 2)

(* part.getCenter(): the centre of the box around the occupied cells *)
GetCenter(p) ==
  LET cells == DOMAIN p
  IN  IF cells = {} THEN VZero
      ELSE <<BoxMiddle(cells, 1), BoxMiddle(cells, 2), BoxMiddle(cells, 3)>>

(* the parts part.randomize() may leave *)
RandomParts ==
  { (<<0, 0, 0>> :> Block("X", "PinHole", TRUE)) @@ (<<1, 0, 0>> :> Block("X", "PinHole", TRUE)),
    (<<0, 0, 0>> :> Block("Y", "AxleHole", FALSE)) @@ (<<0, 1, 2>> :> Block("Z", "PinHole", TRUE)) }

(* the parts Part.fromString(url.searchParams.get("part")) may give *)
SharedParts == { EmptyPart }

(* a string is the sequence of its symbols, here numbers: part.toString()
   writes, cell after cell in the order of the cells, the three coordinates
   of the cell and the orientation, the type and the roundedness of its
   block *)
OrientationCode(o) == IF o = "X" THEN 0 ELSE IF o = "Y" THEN 1 ELSE 2

TypeCode(t) == IF t = "PinHole" THEN 0 ELSE 1

CellBefore(a, b) ==
  \/ a[1] < b[1]
  \/ a[1] = b[1] /\ a[2] < b[2]
  \/ a[1] = b[1] /\ a[2] = b[2] /\ a[3] <= b[3]

RECURSIVE toString(_)
toString(p) ==
  IF DOMAIN p = {} THEN <<>>
  ELSE LET cells == DOMAIN p
           c == CHOOSE a \in cells : \A b \in cells : CellBefore(a, b)
       IN  <<c[1], c[2], c[3], OrientationCode(p[c].orientation),
             TypeCode(p[c].type), IF p[c].rounded THEN 1 ELSE 0>>
           \o toString(ClearBlock(p, c, p[c].orientation))

(* Part.fromString reads the cells back, six symbols at a time *)
RECURSIVE fromString(_)
fromString(str) ==
  IF Len(str) < 6 THEN EmptyPart
  ELSE PlaceBlockForced(fromString(SubSeq(str, 7, Len(str))),
                        <<str[1], str[2], str[3]>>,
                        Block(IF str[4] = 0 THEN "X" ELSE IF str[4] = 1 THEN "Y" ELSE "Z",
                              IF str[5] = 0 THEN "PinHole" ELSE "AxleHole",
                              str[6] = 1))

(* url.searchParams: has("part") and get("part") *)
NoPart == [has |-> FALSE, part |-> <<>>]

PartParam(str) == [has |-> TRUE, part |-> str]

(* the cells handles.block may address *)
TargetCells == { <<0, 0, 0>>, <<1, 1, 0>> }

(* handles.block after new Handles(camera) *)
InitialTarget == <<0, 0, 0>>

(* the values the option groups of the page pass to the brush handlers *)
BLOCK_TYPE == [pinhole |-> "PinHole", axlehole |-> "AxleHole"]

ORIENTATION == [x |-> "X", y |-> "Y", z |-> "Z"]

SizeNames == {"full", "half"}

RoundedNames == {"true", "false"}

(* ------------------------------ events -------------------------------- *)

(* MouseEvent.button *)
Buttons == {0, 1, 2}

(* MouseEvent.buttons, the buttons still held: 1 primary, 2 secondary, 4 auxiliary *)
ButtonMasks == {0, 4}

ButtonBit(b) == IF b = 0 THEN 1 ELSE IF b = 1 THEN 4 ELSE IF b = 2 THEN 2 ELSE 8

(* MouseEvent.movementX, movementY *)
Movements == {<<180, 0>>, <<0, 180>>}

(* MouseWheelEvent.deltaY *)
Deltas == {-100, 0, 100}

(* gl.drawingBufferHeight *)
Heights == {180, 360}

MouseModes == {"None", "Left", "Middle", "Right"}

Ev(op) == [op |-> op, button |-> 0, buttons |-> 0, consumed |-> FALSE,
           movementX |-> 0, movementY |-> 0, deltaY |-> 0, height |-> 0,
           value |-> ""]

(* the mode, the camera, the model and the brush as a handler finds them *)
Snapshot == [mouseMode |-> mouseMode, translation |-> translation, rotation |-> rotation, zoom |-> zoom,
             center |-> center, cameraTransform |-> cameraTransform,
             cameraSize |-> cameraSize, part |-> part,
             editorState |-> editorState,
             createFullSizedBlocks |-> createFullSizedBlocks]

(* ------------------------ camera (Editor.ts) -------------------------- *)

zoomStep == <<9, 10>>

Half == <<1, 2>>

MinusHalf == <<-1, 2>>

CameraOffset == Vector3(0, 0, -15)

(* what camera.render() draws with *)
Frame(transform, size) == [transform |-> transform, size |-> size]

(* the values camera.size may hold after new Camera(canvas), before the
   session assigns it *)
CameraSizes == {RInt(1), RInt(5)}

(* updateTransform: the matrix assigned to camera.transform *)
ComposedTransform(c, r, t) ==
  MTimes(MTimes(GetTranslation(c), ToMatrix(r)),
         GetTranslation(VPlus(t, CameraOffset)))

UpdateTransform == cameraTransform' = ComposedTransform(center', rotation', translation')

(* updateMesh, line 137 *)
NewCenter(p) == VTimes(GetCenter(p), MinusHalf)

RecenteredTranslationUnrotated(t, r, c, newCenter) ==
  VPlus(t, VMinus(c, newCenter))

RecenteredTranslationReversed(t, r, c, newCenter) ==
  VPlus(t, TransformDirection(ToMatrix(r), VMinus(newCenter, c)))

(* updateMesh, line 138 *)
RecenteredTranslation(t, r, c, newCenter) ==
  VPlus(t, TransformDirection(ToMatrix(r), VMinus(c, newCenter)))

MeshCallsRenderEarly ==
  <<"PartMeshGenerator.getMesh", "partRenderer.setMesh", "part.getCenter",
    "updateTransform", "camera.render", "handles.updateTransforms">>

(* updateMesh, lines 134-142: the calls made *)
MeshCalls == <<"PartMeshGenerator.getMesh", "partRenderer.setMesh", "part.getCenter",
               "updateTransform", "handles.updateTransforms", "camera.render">>

(* updateMesh, run after the handler has set part' *)
UpdateMesh(calls) ==
  /\ center' = NewCenter(part')
  /\ translation' = RecenteredTranslation(translation, rotation, center, center')
  /\ rotation' = rotation
  /\ UpdateTransform
  /\ log' = calls \o MeshCalls
  /\ frames' = <<Frame(cameraTransform', cameraSize)>>
  /\ UNCHANGED <<zoom, cameraSize>>

(* ------------------------ edit handlers ------------------------------- *)

EditFrame == UNCHANGED <<mouseMode, handlesBlock, nIn, nOut, nZero>>

clearWithoutUpdateMesh ==
  /\ nSteps < MaxSteps
  /\ part' = EmptyPart
  /\ log' = <<"part.blocks.clear">>
  /\ ev' = Ev("clear")
  /\ frames' = <<>>
  /\ old' = Snapshot
  /\ UNCHANGED <<href, shared>>
  /\ nSteps' = nSteps + 1
  /\ EditFrame
  /\ UNCHANGED <<editorState, createFullSizedBlocks, translation, center, rotation,
                 zoom, cameraTransform, cameraSize>>

clear ==
  /\ nSteps < MaxSteps
  /\ part' = EmptyPart
  /\ UpdateMesh(<<"part.blocks.clear">>)
  /\ ev' = Ev("clear")
  /\ old' = Snapshot
  /\ UNCHANGED <<href, shared>>
  /\ nSteps' = nSteps + 1
  /\ EditFrame
  /\ UNCHANGED <<editorState, createFullSizedBlocks>>

randomize(p) ==
  /\ nSteps < MaxSteps
  /\ part' = p
  /\ UpdateMesh(<<"part.randomize">>)
  /\ ev' = Ev("randomize")
  /\ old' = Snapshot
  /\ UNCHANGED <<href, shared>>
  /\ nSteps' = nSteps + 1
  /\ EditFrame
  /\ UNCHANGED <<editorState, createFullSizedBlocks>>

RemovedPartNextCell(p, cell) == ClearBlock(p, CellPlus(cell, forward("X")), "X")

(* remove, line 100: the part after the call of clearBlock *)
RemovedPart(p, cell) == ClearBlock(p, cell, "X")

remove ==
  /\ nSteps < MaxSteps
  /\ part' = RemovedPart(part, handlesBlock)
  /\ UpdateMesh(<<"part.clearBlock">>)
  /\ ev' = Ev("remove")
  /\ old' = Snapshot
  /\ UNCHANGED <<href, shared>>
  /\ nSteps' = nSteps + 1
  /\ EditFrame
  /\ UNCHANGED <<editorState, createFullSizedBlocks>>

PlacedPartForwardX(p, cell, es, full) ==
  LET first == PlaceBlockForced(p, cell, Block(es.orientation, es.type, es.rounded))
  IN  IF full
      THEN PlaceBlockForced(first, CellPlus(cell, forward("X")),
                            Block(es.orientation, es.type, es.rounded))
      ELSE first

PlacedPartUnforced(p, cell, es, full) ==
  LET b == Block(es.orientation, es.type, es.rounded)
      next == CellPlus(cell, forward(es.orientation))
      first == IF cell \in DOMAIN p THEN p ELSE PlaceBlockForced(p, cell, b)
  IN  IF full /\ next \notin DOMAIN first THEN PlaceBlockForced(first, next, b)
      ELSE first

(* updateBlock, lines 125-129: the part after the writes *)
PlacedPart(p, cell, es, full) ==
  LET first == PlaceBlockForced(p, cell, Block(es.orientation, es.type, es.rounded))
  IN  IF full
      THEN PlaceBlockForced(first, CellPlus(cell, forward(es.orientation)),
                            Block(es.orientation, es.type, es.rounded))
      ELSE first

PlaceCalls(full) ==
  IF full THEN <<"part.placeBlockForced", "part.placeBlockForced">>
  ELSE <<"part.placeBlockForced">>

(* updateBlock, run after the handler has set the brush *)
UpdateBlock ==
  /\ part' = PlacedPart(part, handlesBlock, editorState', createFullSizedBlocks')
  /\ UpdateMesh(PlaceCalls(createFullSizedBlocks'))

setType(typeName) ==
  /\ nSteps < MaxSteps
  /\ editorState' = [editorState EXCEPT !.type = BLOCK_TYPE[typeName]]
  /\ createFullSizedBlocks' = createFullSizedBlocks
  /\ UpdateBlock
  /\ ev' = [Ev("setType") EXCEPT !.value = typeName]
  /\ old' = Snapshot
  /\ UNCHANGED <<href, shared>>
  /\ nSteps' = nSteps + 1
  /\ EditFrame

setOrientation(orientatioName) ==
  /\ nSteps < MaxSteps
  /\ editorState' = [editorState EXCEPT !.orientation = ORIENTATION[orientatioName]]
  /\ createFullSizedBlocks' = createFullSizedBlocks
  /\ UpdateBlock
  /\ ev' = [Ev("setOrientation") EXCEPT !.value = orientatioName]
  /\ old' = Snapshot
  /\ UNCHANGED <<href, shared>>
  /\ nSteps' = nSteps + 1
  /\ EditFrame

setSize(sizeName) ==
  /\ nSteps < MaxSteps
  /\ createFullSizedBlocks' = (sizeName = "full")
  /\ editorState' = editorState
  /\ UpdateBlock
  /\ ev' = [Ev("setSize") EXCEPT !.value = sizeName]
  /\ old' = Snapshot
  /\ UNCHANGED <<href, shared>>
  /\ nSteps' = nSteps + 1
  /\ EditFrame

setRounded(roundedName) ==
  /\ nSteps < MaxSteps
  /\ editorState' = [editorState EXCEPT !.rounded = (roundedName = "true")]
  /\ createFullSizedBlocks' = createFullSizedBlocks
  /\ UpdateBlock
  /\ ev' = [Ev("setRounded") EXCEPT !.value = roundedName]
  /\ old' = Snapshot
  /\ UNCHANGED <<href, shared>>
  /\ nSteps' = nSteps + 1
  /\ EditFrame

(* ------------------------ pointer handlers ---------------------------- *)

CameraFrame == UNCHANGED <<translation, center, rotation, zoom, cameraTransform, cameraSize>>

ModelFrame == UNCHANGED <<part, editorState, createFullSizedBlocks>>

Counters == UNCHANGED <<nIn, nOut, nZero, nSteps>>

ModeAfterDownUnchecked(mode, button, consumed) ==
  IF button = 0 THEN "Left"
  ELSE IF button = 1 THEN "Middle"
  ELSE IF button = 2 THEN "Right"
  ELSE mode

ModeAfterDownFromIdle(mode, button, consumed) ==
  IF mode # "None" THEN mode
  ELSE IF button = 0 THEN (IF consumed THEN "Left" ELSE mode)
  ELSE IF button = 1 THEN "Middle"
  ELSE IF button = 2 THEN "Right"
  ELSE mode

(* onMouseDown, lines 153-161: the mode after a press; consumed is what
   handles.onMouseDown(event) returned, FALSE when it was not called *)
ModeAfterDown(mode, button, consumed) ==
  IF button = 0 THEN (IF consumed THEN "Left" ELSE mode)
  ELSE IF button = 1 THEN "Middle"
  ELSE IF button = 2 THEN "Right"
  ELSE mode

(* onMouseDown, lines 153-162: the calls made *)
MouseDownCalls(button) ==
  IF button = 0 THEN <<"handles.onMouseDown", "event.preventDefault">>
  ELSE <<"event.preventDefault">>

onMouseDown(button, consumed) ==
  /\ nSteps < PointerSteps
  /\ button = 0 \/ ~consumed
  /\ mouseMode' = ModeAfterDown(mouseMode, button, consumed)
  /\ log' = MouseDownCalls(button)
  /\ ev' = [Ev("onMouseDown") EXCEPT !.button = button,
                                     !.consumed = consumed]
  /\ frames' = <<>>
  /\ old' = Snapshot
  /\ UNCHANGED <<href, shared>>
  /\ CameraFrame /\ ModelFrame /\ Counters
  /\ UNCHANGED handlesBlock

ModeAfterUpOwnButton(mode, button) ==
  IF \/ mode = "Left" /\ button = 0
     \/ mode = "Middle" /\ button = 1
     \/ mode = "Right" /\ button = 2
  THEN "None" ELSE mode

(* onMouseUp, line 166 *)
ModeAfterUp(mode, button) == "None"

MouseUpCallsWhenDragging(mode, button) ==
  IF mode = "Left" THEN <<"handles.onMouseUp", "event.preventDefault">>
  ELSE <<"event.preventDefault">>

(* onMouseUp, lines 167-168: the calls made *)
MouseUpCalls(mode, button) == <<"handles.onMouseUp", "event.preventDefault">>

onMouseUp(button, buttons) ==
  /\ nSteps < PointerSteps
  /\ buttons \in ButtonMasks \ {ButtonBit(button)}
  /\ mouseMode' = ModeAfterUp(mouseMode, button)
  /\ log' = MouseUpCalls(mouseMode, button)
  /\ ev' = [Ev("onMouseUp") EXCEPT !.button = button, !.buttons = buttons]
  /\ frames' = <<>>
  /\ old' = Snapshot
  /\ UNCHANGED <<href, shared>>
  /\ CameraFrame /\ ModelFrame /\ Counters
  /\ UNCHANGED handlesBlock

PannedTranslationPerPixel(t, movementX, movementY, size, height) ==
  VPlus(t, VTimes(Vector3(movementX, -movementY, 0), RDiv(size, RInt(180))))

PannedTranslationScreenY(t, movementX, movementY, size, height) ==
  VPlus(t, VTimes(Vector3(movementX, movementY, 0), RDiv(size, RInt(height))))

(* onMouseMove, line 178 *)
PannedTranslation(t, movementX, movementY, size, height) ==
  VPlus(t, VTimes(Vector3(movementX, -movementY, 0), RDiv(size, RInt(height))))

OrbitedRotationWorldFrame(r, movementX, movementY) ==
  QTimes(QEuler(<<RMul(RInt(-movementY), Half), RMul(RInt(-movementX), Half), RInt(0)>>), r)

(* onMouseMove, line 183 *)
OrbitedRotation(r, movementX, movementY) ==
  QTimes(r, QEuler(<<RMul(RInt(-movementY), Half), RMul(RInt(-movementX), Half), RInt(0)>>))

MouseMoveCallsAlwaysForwarded(mode) ==
  IF mode \in {"None", "Left"} THEN <<"handles.onMouseMove">>
  ELSE <<"handles.onMouseMove", "updateTransform", "camera.render">>

(* onMouseMove, lines 172-186: the calls made in each mode *)
MouseMoveCalls(mode) ==
  IF mode \in {"None", "Left"} THEN <<"handles.onMouseMove">>
  ELSE <<"updateTransform", "camera.render">>

(* onMouseMove in mode None or Left: handles.onMouseMove(event), which may
   move the selection to the cell target; buttons is event.buttons, which
   the handler does not read *)
onMouseMoveHandles(target, buttons) ==
  /\ nSteps < PointerSteps
  /\ mouseMode \in {"None", "Left"}
  /\ handlesBlock' = target
  /\ log' = MouseMoveCalls(mouseMode)
  /\ ev' = [Ev("onMouseMove") EXCEPT !.buttons = buttons]
  /\ frames' = <<>>
  /\ old' = Snapshot
  /\ UNCHANGED <<href, shared>>
  /\ CameraFrame /\ ModelFrame /\ Counters
  /\ UNCHANGED mouseMode

(* onMouseMove in mode Middle; height is gl.drawingBufferHeight *)
onMouseMoveMiddle(movementX, movementY, height, buttons) ==
  /\ mouseMode = "Middle"
  /\ nSteps < MaxSteps
  /\ translation' = PannedTranslation(translation, movementX, movementY, cameraSize, height)
  /\ UNCHANGED <<center, rotation>>
  /\ UpdateTransform
  /\ log' = MouseMoveCalls(mouseMode)
  /\ ev' = [Ev("onMouseMove") EXCEPT !.movementX = movementX, !.movementY = movementY,
                                     !.height = height, !.buttons = buttons]
  /\ frames' = <<Frame(cameraTransform', cameraSize)>>
  /\ old' = Snapshot
  /\ UNCHANGED <<href, shared>>
  /\ nSteps' = nSteps + 1
  /\ ModelFrame
  /\ UNCHANGED <<zoom, cameraSize, mouseMode, handlesBlock, nIn, nOut, nZero>>

(* onMouseMove in mode Right *)
onMouseMoveRight(movementX, movementY, buttons) ==
  /\ mouseMode = "Right"
  /\ nSteps < MaxSteps
  /\ rotation' = OrbitedRotation(rotation, movementX, movementY)
  /\ UNCHANGED <<center, translation>>
  /\ UpdateTransform
  /\ log' = MouseMoveCalls(mouseMode)
  /\ ev' = [Ev("onMouseMove") EXCEPT !.movementX = movementX, !.movementY = movementY,
                                     !.buttons = buttons]
  /\ frames' = <<Frame(cameraTransform', cameraSize)>>
  /\ old' = Snapshot
  /\ UNCHANGED <<href, shared>>
  /\ nSteps' = nSteps + 1
  /\ ModelFrame
  /\ UNCHANGED <<zoom, cameraSize, mouseMode, handlesBlock, nIn, nOut, nZero>>

onMouseMove(movementX, movementY, buttons) ==
  \/ \E target \in TargetCells : onMouseMoveHandles(target, buttons)
  \/ \E height \in Heights : onMouseMoveMiddle(movementX, movementY, height, buttons)
  \/ onMouseMoveRight(movementX, movementY, buttons)

ZoomAfterScrollInverted(z, deltaY) ==
  RMul(z, IF deltaY > 0 THEN zoomStep ELSE RDiv(RInt(1), zoomStep))

ZoomAfterScrollWhenIdle(z, deltaY) ==
  IF mouseMode = "None"
  THEN RMul(z, IF deltaY < 0 THEN zoomStep ELSE RDiv(RInt(1), zoomStep))
  ELSE z

(* onScroll, line 191 *)
ZoomAfterScroll(z, deltaY) ==
  RMul(z, IF deltaY < 0 THEN zoomStep ELSE RDiv(RInt(1), zoomStep))

onScroll(deltaY) ==
  /\ nSteps < MaxSteps
  /\ zoom' = ZoomAfterScroll(zoom, deltaY)
  /\ cameraSize' = zoom'
  /\ log' = <<"camera.render">>
  /\ ev' = [Ev("onScroll") EXCEPT !.deltaY = deltaY]
  /\ frames' = <<Frame(cameraTransform, cameraSize')>>
  /\ old' = Snapshot
  /\ UNCHANGED <<href, shared>>
  /\ nIn' = IF deltaY < 0 THEN nIn + 1 ELSE nIn
  /\ nOut' = IF deltaY > 0 THEN nOut + 1 ELSE nOut
  /\ nZero' = IF deltaY = 0 THEN nZero + 1 ELSE nZero
  /\ ModelFrame
  /\ nSteps' = nSteps + 1
  /\ UNCHANGED <<translation, center, rotation, cameraTransform, mouseMode,
                 handlesBlock>>

(* ----------------------------- share, save ---------------------------- *)

(* share, line 96: the parameter of the URL assigned to window.location.href *)
SharedUrl(p) == PartParam(toString(p))

(* a click on share; the browser then loads the page of that URL *)
share ==
  /\ nSteps < MaxSteps
  /\ href' = SharedUrl(part)
  /\ shared' = part
  /\ log' = <<"part.toString">>
  /\ ev' = Ev("share")
  /\ frames' = <<>>
  /\ old' = Snapshot
  /\ nSteps' = nSteps + 1
  /\ CameraFrame /\ ModelFrame
  /\ UNCHANGED <<mouseMode, handlesBlock, nIn, nOut, nZero>>

(* a click on save, line 66 *)
save ==
  /\ nSteps < MaxSteps
  /\ log' = <<"PartMeshGenerator.getMesh", "mesh.saveSTLFile">>
  /\ ev' = Ev("save")
  /\ frames' = <<>>
  /\ old' = Snapshot
  /\ nSteps' = nSteps + 1
  /\ CameraFrame /\ ModelFrame
  /\ UNCHANGED <<mouseMode, handlesBlock, href, shared, nIn, nOut, nZero>>

(* --------------------------- construction ----------------------------- *)

ConstructorCalls ==
  MeshCalls \o <<"updateTransform", "camera.render">>

(* lines 53-56: updateMesh() renders with the transform it has composed
   while camera.size is still the one of new Camera(canvas); line 56
   renders after line 55 has assigned camera.size *)
ConstructorFrames(transform, size, zoomSize) ==
  <<Frame(transform, size), Frame(transform, zoomSize)>>

ConstructedPartAlwaysRandom(url, random) == random

(* constructor, lines 30-35: random is what new Part() holds after
   randomize() *)
ConstructedPart(url, random) ==
  IF url.has THEN fromString(url.part) ELSE random

(* the page is loaded again, after a share or by the user, and a new session
   is constructed for the URL of the page *)
constructor(random, size) ==
  /\ nSteps < MaxSteps
  /\ part' = ConstructedPart(href, random)
  /\ editorState' = Block("X", "PinHole", TRUE)
  /\ createFullSizedBlocks' = TRUE
  /\ rotation' = QIdentity
  /\ zoom' = RInt(5)
  /\ center' = NewCenter(part')
  /\ translation' = RecenteredTranslation(VZero, QIdentity, VZero, center')
  /\ UpdateTransform
  /\ cameraSize' = zoom'
  /\ mouseMode' = "None"
  /\ handlesBlock' = InitialTarget
  /\ log' = ConstructorCalls
  /\ ev' = Ev("constructor")
  /\ frames' = ConstructorFrames(cameraTransform', size, cameraSize')
  /\ old' = Snapshot
  /\ nIn' = 0 /\ nOut' = 0 /\ nZero' = 0
  /\ nSteps' = nSteps + 1
  /\ UNCHANGED <<href, shared>>

Init ==
  /\ \/ href = NoPart /\ shared = EmptyPart
     \/ \E p \in SharedParts : href = PartParam(toString(p)) /\ shared = p
  /\ \E random \in RandomParts : part = ConstructedPart(href, random)
  /\ editorState = Block("X", "PinHole", TRUE)
  /\ createFullSizedBlocks = TRUE
  /\ rotation = QIdentity
  /\ zoom = RInt(5)
  /\ center = NewCenter(part)
  /\ translation = RecenteredTranslation(VZero, QIdentity, VZero, center)
  /\ cameraTransform = ComposedTransform(center, rotation, translation)
  /\ cameraSize = zoom
  /\ mouseMode = "None"
  /\ handlesBlock = InitialTarget
  /\ log = ConstructorCalls
  /\ \E size \in CameraSizes : frames = ConstructorFrames(cameraTransform, size, cameraSize)
  /\ ev = Ev("constructor")
  /\ old = Snapshot
  /\ nIn = 0 /\ nOut = 0 /\ nZero = 0 /\ nSteps = 0

Next ==
  \/ clear
  \/ \E p \in RandomParts : randomize(p)
  \/ remove
  \/ \E n \in DOMAIN BLOCK_TYPE : setType(n)
  \/ \E n \in DOMAIN ORIENTATION : setOrientation(n)
  \/ \E n \in SizeNames : setSize(n)
  \/ \E n \in RoundedNames : setRounded(n)
  \/ \E b \in Buttons, c \in BOOLEAN : onMouseDown(b, c)
  \/ \E b \in Buttons, m \in ButtonMasks : onMouseUp(b, m)
  \/ \E d \in Movements, m \in ButtonMasks : onMouseMove(d[1], d[2], m)
  \/ \E d \in Deltas : onScroll(d)
  \/ share
  \/ save
  \/ \E p \in RandomParts, size \in CameraSizes : constructor(p, size)

Spec == Init /\ [][Next]_vars

(* ============================ properties ============================== *)

EditOps == {"clear", "randomize", "remove", "setType", "setOrientation",
            "setSize", "setRounded"}

BrushOps == {"setType", "setOrientation", "setSize", "setRounded"}

Panned == ev.op = "onMouseMove" /\ old.mouseMode = "Middle"

Orbited == ev.op = "onMouseMove" /\ old.mouseMode = "Right"

RECURSIVE Count(_, _)
Count(seq, x) ==
  IF seq = <<>> THEN 0
  ELSE (IF Head(seq) = x THEN 1 ELSE 0) + Count(Tail(seq), x)

(* four points of model space that fix an affine map *)
ProbePoints == {Vector3(0, 0, 0), Vector3(1, 0, 0), Vector3(0, 1, 0), Vector3(0, 0, 1)}

(* C1: after an edit, which leaves the rotation as it was, camera.transform
   takes every fixed point of model space to the place it took it to before
   the edit, whatever the rotation and however the centre moved. *)
C1_RecenterContinuity ==
  (ev.op \in EditOps /\ rotation = old.rotation) =>
    \A p \in ProbePoints :
      TransformPoint(cameraTransform, p) = TransformPoint(old.cameraTransform, p)

(* an edit moved the centre while the camera was orbited away from the identity *)
C1_Witness ==
  /\ ev.op \in EditOps
  /\ center # old.center
  /\ rotation # QIdentity
  /\ rotation = old.rotation

(* C2: mouseMode is one of the four modes, and after a pointer-up it is None. *)
C2_ModeExclusive ==
  /\ mouseMode \in MouseModes
  /\ ev.op = "onMouseUp" => mouseMode = "None"

(* the primary button was released in mode Right with the auxiliary button held *)
C2_Witness ==
  /\ ev.op = "onMouseUp"
  /\ ev.button = 0
  /\ ev.buttons # 0
  /\ old.mouseMode = "Right"
  /\ mouseMode = "None"

(* C3: a primary press enters Left when handles.onMouseDown consumed it, and is
   dropped otherwise: mode and camera stay as they were. *)
C3_PrimaryPress ==
  (ev.op = "onMouseDown" /\ ev.button = 0) =>
    /\ ev.consumed => mouseMode = "Left"
    /\ ~ev.consumed =>
         /\ mouseMode = old.mouseMode
         /\ translation = old.translation
         /\ rotation = old.rotation
         /\ zoom = old.zoom
         /\ center = old.center
         /\ cameraTransform = old.cameraTransform

(* a primary press that was not consumed arrived in mode Middle *)
C3_Witness ==
  /\ ev.op = "onMouseDown"
  /\ ev.button = 0
  /\ ~ev.consumed
  /\ old.mouseMode = "Middle"
  /\ mouseMode = "Middle"

Brush == Block(editorState.orientation, editorState.type, editorState.rounded)

Written ==
  IF createFullSizedBlocks
  THEN {handlesBlock, CellPlus(handlesBlock, forward(editorState.orientation))}
  ELSE {handlesBlock}

(* C4: a Place writes the brush's block at the target cell and, with the full
   size, at the cell one step forward of it, both the same block; with the half
   size it writes the target cell alone; every other cell is left as it was. *)
C4_FullSizePlacement ==
  ev.op \in BrushOps =>
    /\ DOMAIN part = DOMAIN old.part \cup Written
    /\ \A c \in Written : part[c] = Brush
    /\ \A c \in DOMAIN part \ Written : part[c] = old.part[c]

(* a full-size Place along Y or Z wrote a second cell that held no such block *)
C4_Witness ==
  /\ ev.op \in BrushOps
  /\ createFullSizedBlocks
  /\ editorState.orientation # "X"
  /\ LET next == CellPlus(handlesBlock, forward(editorState.orientation))
     IN  next \notin DOMAIN old.part \/ old.part[next] # Brush

(* C5: a brush handler changes its own brush field alone, and leaves at the
   target cell a block that equals the brush as changed. *)
C5_BrushRepaint ==
  /\ ev.op = "setType" =>
       /\ editorState = [old.editorState EXCEPT !.type = BLOCK_TYPE[ev.value]]
       /\ createFullSizedBlocks = old.createFullSizedBlocks
  /\ ev.op = "setOrientation" =>
       /\ editorState = [old.editorState EXCEPT !.orientation = ORIENTATION[ev.value]]
       /\ createFullSizedBlocks = old.createFullSizedBlocks
  /\ ev.op = "setSize" =>
       /\ editorState = old.editorState
       /\ createFullSizedBlocks = (ev.value = "full")
  /\ ev.op = "setRounded" =>
       /\ editorState = [old.editorState EXCEPT !.rounded = (ev.value = "true")]
       /\ createFullSizedBlocks = old.createFullSizedBlocks
  /\ ev.op \in BrushOps =>
       /\ handlesBlock \in DOMAIN part
       /\ part[handlesBlock] = Brush

(* a brush change overwrote a different block at the target cell *)
C5_Witness ==
  /\ ev.op \in BrushOps
  /\ editorState # old.editorState
  /\ handlesBlock \in DOMAIN old.part
  /\ old.part[handlesBlock] # part[handlesBlock]

PixelDelta == Vector3(ev.movementX, -ev.movementY, 0)

(* the translation a session with viewport height h adds for the last move *)
PanDelta(h) ==
  VMinus(PannedTranslation(old.translation, ev.movementX, ev.movementY, old.zoom, h),
         old.translation)

(* C6 as stated: the pan just made adds the translation that a session with
   any other viewport height adds for the same pixel delta. *)
C6_SameDeltaAnyHeight ==
  Panned => \A h \in Heights : VMinus(translation, old.translation) = PanDelta(h)

(* C6 amended: the translation added, times the viewport height, is the pixel
   delta times the zoom in every session; so two sessions of different heights
   add different translations for the same pixel delta. *)
C6_DeltaPerHeight ==
  Panned =>
    /\ VTimes(VMinus(translation, old.translation), RInt(ev.height))
         = VTimes(PixelDelta, old.zoom)
    /\ \A h \in Heights :
         /\ VTimes(PanDelta(h), RInt(h)) = VTimes(PixelDelta, old.zoom)
         /\ h # ev.height => PanDelta(h) # VMinus(translation, old.translation)

(* a pan was made after a wheel event had changed the zoom *)
C6_Witness ==
  /\ Panned
  /\ old.zoom # RInt(5)
  /\ translation # old.translation

Rendering == ev.op \in EditOps \/ ev.op = "onScroll" \/ Panned \/ Orbited

(* C7: a handler that changes the camera transform, the zoom or the model calls
   camera.render() once, and as the last of its calls. *)
C7_OneRender ==
  Rendering =>
    /\ Count(log, "camera.render") = 1
    /\ log[Len(log)] = "camera.render"

(* a full-size Place made two writes and one render *)
C7_Witness ==
  /\ ev.op \in BrushOps
  /\ Count(log, "part.placeBlockForced") = 2
  /\ Count(log, "camera.render") = 1

(* C8: a wheel event with negative deltaY takes zoom to 0.9 zoom, a smaller
   value; one with positive deltaY takes it to zoom / 0.9, a larger value;
   after nIn events of the first kind and nOut of the second, and no other
   wheel event, zoom is 5 * 0.9^(nIn - nOut); zoom is positive. *)
C8_ZoomMonotone ==
  /\ (ev.op = "onScroll" /\ ev.deltaY < 0) =>
       zoom = RMul(old.zoom, <<9, 10>>) /\ RLess(zoom, old.zoom)
  /\ (ev.op = "onScroll" /\ ev.deltaY > 0) =>
       zoom = RDiv(old.zoom, <<9, 10>>) /\ RLess(old.zoom, zoom)
  /\ nZero = 0 => zoom = RMul(RInt(5), RPow(<<9, 10>>, nIn - nOut))
  /\ RLess(RInt(0), zoom)

(* a scroll in and a scroll out have both happened *)
C8_Witness ==
  /\ ev.op = "onScroll"
  /\ nIn >= 1
  /\ nOut >= 1
  /\ nZero = 0

Increment ==
  QEuler(<<RMul(RInt(-ev.movementY), Half), RMul(RInt(-ev.movementX), Half), RInt(0)>>)

(* C9: an orbit takes rotation to rotation * increment, which is not
   increment * rotation wherever the two differ. *)
C9_OrbitLocalFrame ==
  Orbited =>
    /\ rotation = QTimes(old.rotation, Increment)
    /\ QTimes(old.rotation, Increment) # QTimes(Increment, old.rotation)
         => rotation # QTimes(Increment, old.rotation)

(* a horizontal drag was applied to a rotation it does not commute with *)
C9_Witness ==
  /\ Orbited
  /\ ev.movementY = 0
  /\ QTimes(old.rotation, Increment) # QTimes(Increment, old.rotation)

(* C10: a pointer-up calls handles.onMouseUp once, whatever the mode. *)
C10_EndDragAlways ==
  ev.op = "onMouseUp" => Count(log, "handles.onMouseUp") = 1

(* a pointer-up arrived in mode None, with no drag begun *)
C10_Witness ==
  /\ ev.op = "onMouseUp"
  /\ old.mouseMode = "None"
  /\ Count(log, "handles.onMouseUp") = 1

(* C11: a pointer-move is dispatched on mouseMode alone, whatever buttons
   the event reports as held.  In mode None or Left it is forwarded exactly
   once to handles.onMouseMove and translation, rotation, zoom, center and
   the camera transform keep their values; in mode Middle only translation
   and the recomposed transform change, in mode Right only rotation and the
   recomposed transform change, and in neither is the event forwarded to
   the selection collaborator.  The mode itself never changes. *)
C11_MoveDispatch ==
  ev.op = "onMouseMove" =>
    /\ mouseMode = old.mouseMode
    /\ zoom = old.zoom /\ center = old.center /\ cameraSize = old.cameraSize
    /\ part = old.part /\ editorState = old.editorState
    /\ createFullSizedBlocks = old.createFullSizedBlocks
    /\ CASE old.mouseMode \in {"None", "Left"} ->
             /\ Count(log, "handles.onMouseMove") = 1
             /\ translation = old.translation
             /\ rotation = old.rotation
             /\ cameraTransform = old.cameraTransform
        [] old.mouseMode = "Middle" ->
             /\ Count(log, "handles.onMouseMove") = 0
             /\ rotation = old.rotation
             /\ cameraTransform = ComposedTransform(center, rotation, translation)
        [] old.mouseMode = "Right" ->
             /\ Count(log, "handles.onMouseMove") = 0
             /\ translation = old.translation
             /\ cameraTransform = ComposedTransform(center, rotation, translation)

(* a move in mode Middle whose event reports no button held: it pans all
   the same and is not forwarded *)
C11_Witness ==
  /\ Panned
  /\ ev.buttons = 0
  /\ translation # old.translation
  /\ Count(log, "handles.onMouseMove") = 0

(* C12: a pan adds (movementX, -movementY, 0) * (zoom / viewportPixelHeight)
   to translation: the scale is the zoom the session last set (camera.size
   holds that value when the handler starts), the screen Y axis is
   inverted, and the Z component of translation keeps its value. *)
C12_PanMapping ==
  Panned =>
    /\ old.cameraSize = old.zoom
    /\ translation[1] = RAdd(old.translation[1],
                             RDiv(RMul(RInt(ev.movementX), old.zoom), RInt(ev.height)))
    /\ translation[2] = RSub(old.translation[2],
                             RDiv(RMul(RInt(ev.movementY), old.zoom), RInt(ev.height)))
    /\ translation[3] = old.translation[3]

(* a vertical pan made after a wheel event changed the zoom *)
C12_Witness ==
  /\ Panned
  /\ ev.movementY # 0
  /\ old.zoom # RInt(5)
  /\ translation[2] # old.translation[2]

(* C13: a press of the auxiliary button sets mouseMode to Middle and a
   press of the secondary button sets it to Right, from any mode, and
   neither press calls handles.onMouseDown. *)
C13_CameraPress ==
  ev.op = "onMouseDown" /\ ev.button \in {1, 2} =>
    /\ mouseMode = (IF ev.button = 1 THEN "Middle" ELSE "Right")
    /\ Count(log, "handles.onMouseDown") = 0

(* a secondary press while a handle drag (mode Left) is under way *)
C13_Witness ==
  /\ ev.op = "onMouseDown"
  /\ ev.button = 2
  /\ old.mouseMode = "Left"
  /\ mouseMode = "Right"

(* C14: after Remove the target cell of the selection collaborator holds no
   block, whatever the orientation of the block that was stored there and
   whatever the orientation of the brush; the handler then regenerates the
   mesh and recenters, so the cached center is the one of the reduced part. *)
C14_RemoveClearsTarget ==
  ev.op = "remove" =>
    /\ handlesBlock \notin DOMAIN part
    /\ log = <<"part.clearBlock">> \o MeshCalls
    /\ center = VTimes(GetCenter(part), MinusHalf)
    /\ editorState = old.editorState

(* a Remove of a block stored with orientation Y while the brush has
   orientation Y as well *)
C14_Witness ==
  /\ ev.op = "remove"
  /\ handlesBlock \in DOMAIN old.part
  /\ old.part[handlesBlock].orientation = "Y"
  /\ editorState.orientation = "Y"
  /\ handlesBlock \notin DOMAIN part

(* the quaternion q applied to the vector v *)
Rotated(q, v) ==
  <<RAdd(RAdd(RMul(RInt(q[1][1]), v[1]), RMul(RInt(q[1][2]), v[2])), RMul(RInt(q[1][3]), v[3])),
    RAdd(RAdd(RMul(RInt(q[2][1]), v[1]), RMul(RInt(q[2][2]), v[2])), RMul(RInt(q[2][3]), v[3])),
    RAdd(RAdd(RMul(RInt(q[3][1]), v[1]), RMul(RInt(q[3][2]), v[2])), RMul(RInt(q[3][3]), v[3]))>>

(* C17: every run of the recentering algorithm sets translation to
   translation + rotate(rotation, oldCenter - newCenter) with newCenter =
   getCenter() * -0.5, taking the rotation of the time of the edit, and
   leaves rotation and zoom as they were; when getCenter() gives the same
   point as before the edit, translation keeps its value. *)
C17_RecenterStep ==
  ev.op \in EditOps =>
    LET newCenter == VTimes(GetCenter(part), MinusHalf)
    IN  /\ translation = VPlus(old.translation,
                               Rotated(old.rotation, VMinus(old.center, newCenter)))
        /\ rotation = old.rotation
        /\ zoom = old.zoom
        /\ (GetCenter(part) = GetCenter(old.part) => translation = old.translation)

(* an edit made after an orbit that moves the center by a vector the
   rotation does not fix *)
C17_Witness ==
  /\ ev.op \in EditOps
  /\ old.rotation # QIdentity
  /\ center # old.center
  /\ VMinus(translation, old.translation) # VMinus(old.center, center)

(* C18: the cached center is never stale: between handlers center equals
   getCenter() * -0.5 of the current part. *)
C18_CenterFresh ==
  center = VTimes(GetCenter(part), MinusHalf)

(* after an edit that moved the center away from where construction put it *)
C18_Witness ==
  /\ ev.op \in {"clear", "remove"}
  /\ center # old.center
  /\ center = VTimes(GetCenter(part), MinusHalf)

(* C15: a wheel event changes zoom by the same factor in every mouse mode,
   a factor fixed by the sign test on deltaY alone, and leaves mouseMode,
   translation, rotation, center, the brush and the object model as they
   were. *)
C15_WheelAnyMode ==
  ev.op = "onScroll" =>
    /\ zoom = RMul(old.zoom, IF ev.deltaY < 0 THEN <<9, 10>> ELSE <<10, 9>>)
    /\ mouseMode = old.mouseMode
    /\ translation = old.translation
    /\ rotation = old.rotation
    /\ center = old.center
    /\ editorState = old.editorState
    /\ createFullSizedBlocks = old.createFullSizedBlocks
    /\ part = old.part

(* a wheel event that zooms in the middle of a pan drag *)
C15_Witness ==
  /\ ev.op = "onScroll"
  /\ old.mouseMode = "Middle"
  /\ mouseMode = "Middle"
  /\ ev.deltaY < 0
  /\ zoom = RMul(old.zoom, <<9, 10>>)

(* C20: a wheel event whose deltaY is zero leaves zoom unchanged; zoom
   changes only on a negative or a positive delta.  The code tests
   deltaY < 0 alone, so a zero delta takes the zoom-out branch. *)
C20_ZeroDeltaKeepsZoom ==
  ev.op = "onScroll" /\ ev.deltaY = 0 => zoom = old.zoom

(* C16: Export and Share are read-only: neither changes the object model,
   translation, rotation, zoom, center, the brush or mouseMode.  The string
   Share puts in the part parameter of the URL, given to the construction
   of a session, yields an object model equal to the shared one, and a
   construction without the parameter starts from a randomized model. *)
C16_ShareExportReadOnly ==
  /\ ev.op \in {"share", "save"} =>
        /\ part = old.part
        /\ translation = old.translation /\ rotation = old.rotation
        /\ zoom = old.zoom /\ center = old.center
        /\ editorState = old.editorState
        /\ createFullSizedBlocks = old.createFullSizedBlocks
        /\ mouseMode = old.mouseMode
  /\ ev.op = "share" => href.has /\ shared = part
  /\ ev.op = "constructor" =>
        IF href.has THEN part = shared ELSE part \in RandomParts

(* the page loaded with the string of a shared part that is not empty:
   the new session holds the two blocks of the shared part *)
C16_Witness ==
  /\ ev.op = "constructor"
  /\ nSteps > 0
  /\ href.has
  /\ Len(href.part) = 12
  /\ part = shared
  /\ part = old.part

(* C19: at every call of camera.render() the session makes, the renders
   of the constructor included, camera.transform is the composition
   translate(center) o rotate(rotation) o translate(translation + (0,0,-15))
   of the current center, rotation and translation, and camera.size is the
   current zoom.  No handler writes center, rotation, translation or zoom
   after its first render, so the fields at the end of the handler are the
   fields at each of its renders. *)
C19_NoStaleFrame ==
  /\ Len(frames) = Count(log, "camera.render")
  /\ \A i \in DOMAIN frames :
        /\ frames[i].transform = ComposedTransform(center, rotation, translation)
        /\ frames[i].size = zoom

====
